---- MODULE Spec2Model ----
(***************************************************************************)
(* A model of the letter and word counter (package main).                  *)
(*                                                                         *)
(* Strings are sequences of one-character strings, so that concatenation,  *)
(* replacement and splitting are computed and not assumed.  A stats view   *)
(* (xsync.Map[string, *xsync.Counter]) is a function from the keys stored  *)
(* in it to their counts; a total (xsync.Counter) is a natural number.     *)
(*                                                                         *)
(* Six specifications are given:                                           *)
(*   SpecInc   inc called with arbitrary arguments on the two bundles,     *)
(*             and print called on the result;                             *)
(*   SpecConc  several tasks inside incX on one view, step by step;        *)
(*   SpecNorm  normalize called on any short line;                         *)
(*   SpecLine  processLine called on any lines of tokens;                  *)
(*   SpecFile  run without flags over files of up to four lines;           *)
(*   Spec      run: parseFlags, the file loop, processFile, the reports.   *)
(***************************************************************************)
EXTENDS Integers, Sequences, FiniteSets, TLC

VARIABLES
    words,      \* handler.words
    letters,    \* handler.letters
    calls,      \* SpecInc: how many inc calls of each kind were made, per bundle
    m,          \* SpecConc: the view, key -> counter (an index of ctr)
    ctr,        \* SpecConc: the counters allocated so far, by index
    task,       \* SpecConc: where each task is inside incX
    issued,     \* SpecConc: how many incX calls were made with each key
    flags,      \* flagValSwap, flagValRemove, flagValRemoveHTML
    args,       \* the file arguments of the command
    h,          \* handler.removeWords, .swapNGrams, .removeHTML
    run,        \* where run is: pc, the index of the file at hand, the error returned
    pf,         \* processFile's locals prev, curr, prevBroken, currBroken
    scanned,    \* per file opened: the lines its scanner returned, and how it ended
    emitted,    \* per file opened: the tokens handed to processLine, in order
    results,    \* per file: what runFile returned, "nil" or "error"
    report      \* what print has written

statsVars == <<words, letters>>
concVars  == <<m, ctr, task, issued>>
pipeVars  == <<flags, args, h, run, pf, scanned, emitted, results, report>>
vars      == <<words, letters, calls, m, ctr, task, issued,
               flags, args, h, run, pf, scanned, emitted, results, report>>

\* Bounds of the model.
MaxIncCalls     == 3
NumTasks        == 2
MaxCallsPerTask == 2
MaxLines        == 3
MaxTop          == 2
MaxPieces       == 3
MaxLineCalls    == 2
MaxFileLines    == 4

----------------------------------------------------------------------------
(* The stats bundle and inc.                                               *)

EmptyView == <<>>   \* a map with no keys

RECURSIVE SumView(_)
SumView(v) ==
    IF DOMAIN v = {} THEN 0
    ELSE LET k == CHOOSE x \in DOMAIN v : TRUE
         IN  v[k] + SumView([x \in DOMAIN v \ {k} |-> v[x]])

At(v, k) == IF k \in DOMAIN v THEN v[k] ELSE 0

makeStats ==
    [ count        |-> 0, universal |-> EmptyView,
      countSwapped |-> 0, swapped   |-> EmptyView,
      countRemoved |-> 0, removed   |-> EmptyView,
      countBoth    |-> 0, both      |-> EmptyView ]

\* incX run alone: Load, Store of a fresh counter on a miss, Inc.
incX(v, k) ==
    IF Len(k) = 0 THEN v
    ELSE IF k \in DOMAIN v THEN [v EXCEPT ![k] = @ + 1]
    ELSE (k :> 1) @@ v

\* inc with the universal total counted in the not-removed branch only.
inc_countKeptOnly(stats, raw, swapped, removed) ==
    LET s1 == IF Len(raw) > 0
              THEN IF ~removed
                   THEN [stats EXCEPT !.count     = @ + 1,
                                      !.universal = incX(@, raw),
                                      !.removed   = incX(@, raw)]
                   ELSE [stats EXCEPT !.universal    = incX(@, raw),
                                      !.countRemoved = @ + 1]
              ELSE stats
    IN  IF Len(swapped) > 0
        THEN IF ~removed
             THEN [s1 EXCEPT !.countSwapped = @ + 1,
                             !.swapped      = incX(@, swapped),
                             !.countBoth    = @ + 1,
                             !.both         = incX(@, swapped)]
             ELSE [s1 EXCEPT !.countSwapped = @ + 1,
                             !.swapped      = incX(@, swapped)]
        ELSE s1

\* inc with countRemoved counted for every removed call, raw unit or not.
inc_removedAlways(stats, raw, swapped, removed) ==
    LET s1 == IF Len(raw) > 0
              THEN IF ~removed
                   THEN [stats EXCEPT !.count     = @ + 1,
                                      !.universal = incX(@, raw),
                                      !.removed   = incX(@, raw)]
                   ELSE [stats EXCEPT !.count     = @ + 1,
                                      !.universal = incX(@, raw)]
              ELSE stats
        s2 == IF removed THEN [s1 EXCEPT !.countRemoved = @ + 1] ELSE s1
    IN  IF Len(swapped) > 0
        THEN IF ~removed
             THEN [s2 EXCEPT !.countSwapped = @ + 1,
                             !.swapped      = incX(@, swapped),
                             !.countBoth    = @ + 1,
                             !.both         = incX(@, swapped)]
             ELSE [s2 EXCEPT !.countSwapped = @ + 1,
                             !.swapped      = incX(@, swapped)]
        ELSE s2

\* inc with the both view fed by every swapped unit, removed or not.
inc_bothAlways(stats, raw, swapped, removed) ==
    LET s1 == IF Len(raw) > 0
              THEN IF ~removed
                   THEN [stats EXCEPT !.count     = @ + 1,
                                      !.universal = incX(@, raw),
                                      !.removed   = incX(@, raw)]
                   ELSE [stats EXCEPT !.count        = @ + 1,
                                      !.universal    = incX(@, raw),
                                      !.countRemoved = @ + 1]
              ELSE stats
    IN  IF Len(swapped) > 0
        THEN [s1 EXCEPT !.countSwapped = @ + 1,
                        !.swapped      = incX(@, swapped),
                        !.countBoth    = @ + 1,
                        !.both         = incX(@, swapped)]
        ELSE s1

\* inc with the universal total counted on every call, raw unit or not.
inc_countUnguarded(stats, raw, swapped, removed) ==
    LET s0 == [stats EXCEPT !.count = @ + 1]
        s1 == IF Len(raw) > 0
              THEN IF ~removed
                   THEN [s0 EXCEPT !.universal = incX(@, raw),
                                   !.removed   = incX(@, raw)]
                   ELSE [s0 EXCEPT !.universal    = incX(@, raw),
                                   !.countRemoved = @ + 1]
              ELSE s0
    IN  IF Len(swapped) > 0
        THEN IF ~removed
             THEN [s1 EXCEPT !.countSwapped = @ + 1,
                             !.swapped      = incX(@, swapped),
                             !.countBoth    = @ + 1,
                             !.both         = incX(@, swapped)]
             ELSE [s1 EXCEPT !.countSwapped = @ + 1,
                             !.swapped      = incX(@, swapped)]
        ELSE s1

inc(stats, raw, swapped, removed) ==
    LET s1 == IF Len(raw) > 0
              THEN IF ~removed
                   THEN [stats EXCEPT !.count     = @ + 1,
                                      !.universal = incX(@, raw),
                                      !.removed   = incX(@, raw)]
                   ELSE [stats EXCEPT !.count        = @ + 1,
                                      !.universal    = incX(@, raw),
                                      !.countRemoved = @ + 1]
              ELSE stats
    IN  IF Len(swapped) > 0
        THEN IF ~removed
             THEN [s1 EXCEPT !.countSwapped = @ + 1,
                             !.swapped      = incX(@, swapped),
                             !.countBoth    = @ + 1,
                             !.both         = incX(@, swapped)]
             ELSE [s1 EXCEPT !.countSwapped = @ + 1,
                             !.swapped      = incX(@, swapped)]
        ELSE s1

\* The four totals print shows in the header row and divides by in the cells,
\* in column order raw | removed | swapped | both.
printTotals_universal(stats) ==
    << stats.count, stats.count, stats.count, stats.count >>

printTotals(stats) ==
    << stats.count,
       stats.count - stats.countRemoved,
       stats.countSwapped,
       stats.countBoth >>

----------------------------------------------------------------------------
(* print: the ranked lists and the table.                                  *)

\* The characters of the model in the order of their bytes; strings.Compare
\* compares byte by byte, and a character outside ASCII comes after all of
\* ASCII.
ByteOrder ==
    << "\t", " ", "!", ",", "-", ".", "/",
       "0", "1", "2", "3", "4", "5", "6", "7", "8", "9", "<", ">",
       "A", "B", "C", "D", "E", "F", "G", "H", "I", "J", "K", "L", "M",
       "N", "O", "P", "Q", "R", "S", "T", "U", "V", "W", "X", "Y", "Z",
       "a", "b", "c", "d", "e", "f", "g", "h", "i", "j", "k", "l", "m",
       "n", "o", "p", "q", "r", "s", "t", "u", "v", "w", "x", "y", "z",
       "é" >>

byteRanks ==
    [c \in {ByteOrder[i] : i \in DOMAIN ByteOrder} |->
        CHOOSE i \in DOMAIN ByteOrder : ByteOrder[i] = c]

byteRank(c) == byteRanks[c]

\* strings.Compare: -1, 0 or 1.
RECURSIVE Compare(_, _)
Compare(a, b) ==
    IF a = <<>> /\ b = <<>> THEN 0
    ELSE IF a = <<>> THEN -1
    ELSE IF b = <<>> THEN 1
    ELSE IF byteRank(Head(a)) < byteRank(Head(b)) THEN -1
    ELSE IF byteRank(Head(a)) > byteRank(Head(b)) THEN 1
    ELSE Compare(Tail(a), Tail(b))

\* The comparison toUnitSlice sorts by; a unit is [v |-> key, n |-> count].
cmpUnits_countOnly(a, b) == b.n - a.n

cmpUnits(a, b) ==
    LET diff == b.n - a.n
    IN  IF diff # 0 THEN diff ELSE Compare(a.v, b.v)

\* slices.SortFunc, as an insertion sort: x goes behind the last element
\* that does not compare greater than it.
RECURSIVE insertUnit(_, _)
insertUnit(sorted, x) ==
    IF sorted = <<>> THEN <<x>>
    ELSE LET last == sorted[Len(sorted)]
         IN  IF cmpUnits(last, x) <= 0
             THEN Append(sorted, x)
             ELSE Append(insertUnit(SubSeq(sorted, 1, Len(sorted) - 1), x), last)

RECURSIVE SortFunc(_)
SortFunc(list) ==
    IF list = <<>> THEN <<>>
    ELSE insertUnit(SortFunc(SubSeq(list, 1, Len(list) - 1)), list[Len(list)])

\* The orders in which Range may visit the keys of a view.
rangeOrders(view) ==
    { o \in [1..Cardinality(DOMAIN view) -> DOMAIN view] :
        \A i, j \in DOMAIN o : i # j => o[i] # o[j] }

\* toUnitSlice, Range visiting the keys in the given order.
toUnitSlice(view, order) ==
    SortFunc([i \in DOMAIN order |-> [v |-> order[i], n |-> view[order[i]]]])

\* The cut of a ranked list to its top entries.
cutTop_always(list, top) ==
    IF Len(list) > top THEN SubSeq(list, 1, top) ELSE list

cutTop(list, top) ==
    IF top > 0 /\ Len(list) > top THEN SubSeq(list, 1, top) ELSE list

max(a, b) == IF a >= b THEN a ELSE b

BlankCell == [text |-> "|  "]

\* addCellUnit for the zero-based rank i: the key, its count and the total
\* the percentage divides by.
addCellUnit(i, sl, total) ==
    IF Len(sl) <= i THEN BlankCell
    ELSE [v |-> sl[i + 1].v, n |-> sl[i + 1].n, total |-> total]

\* What print writes: the title, the header totals and one row per rank.
\* orders gives, per view, the order in which Range visits it.
print(stats, title, top, orders) ==
    LET u == cutTop(toUnitSlice(stats.universal, orders.universal), top)
        r == cutTop(toUnitSlice(stats.removed, orders.removed), top)
        s == cutTop(toUnitSlice(stats.swapped, orders.swapped), top)
        b == cutTop(toUnitSlice(stats.both, orders.both), top)
        longest == max(max(Len(u), Len(s)), max(Len(r), Len(b)))
        t == printTotals(stats)
    IN  [ title  |-> title,
          top    |-> top,
          header |-> t,
          rows   |-> [ i \in 1..longest |->
                         [ rank  |-> i - 1,
                           cells |-> << addCellUnit(i - 1, u, t[1]),
                                        addCellUnit(i - 1, r, t[2]),
                                        addCellUnit(i - 1, s, t[3]),
                                        addCellUnit(i - 1, b, t[4]) >> ] ] ]

\* Every way Range may visit the four views of a bundle.
printOrders(stats) ==
    [ universal : rangeOrders(stats.universal),
      removed   : rangeOrders(stats.removed),
      swapped   : rangeOrders(stats.swapped),
      both      : rangeOrders(stats.both) ]

----------------------------------------------------------------------------
(* SpecInc: any sequence of inc calls.                                     *)

Dims     == {"words", "letters"}
RawUnits == { <<>>, <<"a">>, <<"t", "h", "e">> }
SwpUnits == { <<>>, <<"a">>, <<"x", "e">> }

NoCalls == [n |-> 0, raw |-> 0, rawRemoved |-> 0, swp |-> 0, swpRemoved |-> 0]

\* The call log after one more call inc(_, raw, swapped, removed).
Logged(c, raw, swapped, removed) ==
    [ n          |-> c.n + 1,
      raw        |-> c.raw + (IF Len(raw) > 0 THEN 1 ELSE 0),
      rawRemoved |-> c.rawRemoved + (IF Len(raw) > 0 /\ removed THEN 1 ELSE 0),
      swp        |-> c.swp + (IF Len(swapped) > 0 THEN 1 ELSE 0),
      swpRemoved |-> c.swpRemoved + (IF Len(swapped) > 0 /\ removed THEN 1 ELSE 0) ]

TotalCalls == calls["words"].n + calls["letters"].n

ConcIdle ==
    /\ m = EmptyView
    /\ ctr = <<>>
    /\ task = <<>>
    /\ issued = EmptyView

newHandler ==
    [removeWords |-> {}, swapNGrams |-> <<>>, removeHTML |-> FALSE]

NoLocals == [prev |-> <<>>, curr |-> <<>>, prevBroken |-> FALSE, currBroken |-> FALSE]

PipeIdle ==
    /\ flags = [swap |-> <<>>, remove |-> {}, html |-> FALSE]
    /\ args = <<>>
    /\ h = newHandler
    /\ run = [pc |-> "idle", i |-> 0, err |-> ""]
    /\ pf = NoLocals
    /\ scanned = <<>>
    /\ emitted = <<>>
    /\ results = <<>>
    /\ report = <<>>

InitInc ==
    /\ words = makeStats
    /\ letters = makeStats
    /\ calls = [d \in Dims |-> NoCalls]
    /\ ConcIdle
    /\ PipeIdle

IncWords ==
    /\ TotalCalls < MaxIncCalls
    /\ report = <<>>
    /\ \E raw \in RawUnits, swapped \in SwpUnits, removed \in BOOLEAN :
          /\ words' = inc(words, raw, swapped, removed)
          /\ calls' = [calls EXCEPT !["words"] = Logged(@, raw, swapped, removed)]
    /\ UNCHANGED letters
    /\ UNCHANGED concVars
    /\ UNCHANGED pipeVars

IncLetters ==
    /\ TotalCalls < MaxIncCalls
    /\ report = <<>>
    /\ \E raw \in RawUnits, swapped \in SwpUnits, removed \in BOOLEAN :
          /\ letters' = inc(letters, raw, swapped, removed)
          /\ calls' = [calls EXCEPT !["letters"] = Logged(@, raw, swapped, removed)]
    /\ UNCHANGED words
    /\ UNCHANGED concVars
    /\ UNCHANGED pipeVars

\* print called on one of the bundles after the inc calls, with any top.
print_call ==
    /\ report = <<>>
    /\ \E d \in Dims, top \in 0..MaxTop :
          \E orders \in printOrders(IF d = "words" THEN words ELSE letters) :
              report' = << print(IF d = "words" THEN words ELSE letters,
                                 d, top, orders) >>
    /\ UNCHANGED <<words, letters, calls>>
    /\ UNCHANGED concVars
    /\ UNCHANGED <<flags, args, h, run, pf, scanned, emitted, results>>

NextInc == IncWords \/ IncLetters \/ print_call

SpecInc == InitInc /\ [][NextInc]_vars

----------------------------------------------------------------------------
(* SpecConc: tasks calling incX on one shared view.  Load, Store and Inc   *)
(* are each atomic (xsync.Map and xsync.Counter); incX as a whole is not.  *)

ConcKeys == { <<>>, <<"a">>, <<"b">> }
Tasks    == 1..NumTasks

InitConc ==
    /\ words = makeStats
    /\ letters = makeStats
    /\ calls = [d \in Dims |-> NoCalls]
    /\ m = EmptyView
    /\ ctr = <<>>
    /\ task = [t \in Tasks |->
                 [pc |-> "idle", k |-> <<>>, v |-> 0, left |-> MaxCallsPerTask]]
    /\ issued = [k \in ConcKeys |-> 0]
    /\ PipeIdle

ConcFrame == UNCHANGED <<words, letters, calls>> /\ UNCHANGED pipeVars

\* A task enters incX(m, k); an empty key returns at once.
incX_call ==
    /\ \E t \in Tasks, k \in ConcKeys :
          /\ task[t].pc = "idle"
          /\ task[t].left > 0
          /\ task' = [task EXCEPT ![t] =
                        [ pc   |-> IF Len(k) = 0 THEN "idle" ELSE "load",
                          k    |-> k,
                          v    |-> 0,
                          left |-> task[t].left - 1 ]]
          /\ issued' = [issued EXCEPT ![k] = @ + 1]
    /\ UNCHANGED <<m, ctr>>
    /\ ConcFrame

\* v, ok := m.Load(k)
incX_load ==
    /\ \E t \in Tasks :
          /\ task[t].pc = "load"
          /\ task' = [task EXCEPT ![t] =
                        IF task[t].k \in DOMAIN m
                        THEN [task[t] EXCEPT !.pc = "inc", !.v = m[task[t].k]]
                        ELSE [task[t] EXCEPT !.pc = "store"]]
    /\ UNCHANGED <<m, ctr, issued>>
    /\ ConcFrame

\* v = xsync.NewCounter(); m.Store(k, v): the key now maps to the new counter,
\* whatever it mapped to before.
incX_store ==
    /\ \E t \in Tasks :
          /\ task[t].pc = "store"
          /\ ctr' = Append(ctr, 0)
          /\ m' = (task[t].k :> (Len(ctr) + 1)) @@ m
          /\ task' = [task EXCEPT ![t] =
                        [task[t] EXCEPT !.pc = "inc", !.v = Len(ctr) + 1]]
    /\ UNCHANGED issued
    /\ ConcFrame

\* v.Inc()
incX_inc ==
    /\ \E t \in Tasks :
          /\ task[t].pc = "inc"
          /\ ctr' = [ctr EXCEPT ![task[t].v] = @ + 1]
          /\ task' = [task EXCEPT ![t] = [task[t] EXCEPT !.pc = "idle"]]
    /\ UNCHANGED <<m, issued>>
    /\ ConcFrame

NextConc == incX_call \/ incX_load \/ incX_store \/ incX_inc

SpecConc == InitConc /\ [][NextConc]_vars

\* The count a reader of the view sees for k.
viewValue(k) == IF k \in DOMAIN m THEN ctr[m[k]] ELSE 0

----------------------------------------------------------------------------
(* Strings: package strings and the three regular expressions.             *)

LowerLetters ==
    << "a", "b", "c", "d", "e", "f", "g", "h", "i", "j", "k", "l", "m",
       "n", "o", "p", "q", "r", "s", "t", "u", "v", "w", "x", "y", "z" >>
UpperLetters ==
    << "A", "B", "C", "D", "E", "F", "G", "H", "I", "J", "K", "L", "M",
       "N", "O", "P", "Q", "R", "S", "T", "U", "V", "W", "X", "Y", "Z" >>
Digits == {"0", "1", "2", "3", "4", "5", "6", "7", "8", "9"}

Range(f) == {f[i] : i \in DOMAIN f}

\* [a-zA-Z0-9]
IsAlnum(c) == c \in Range(LowerLetters) \cup Range(UpperLetters) \cup Digits

\* unicode.IsSpace, for the characters the model reads.
IsSpace(c) == c \in {" ", "\t"}

toLowerChar(c) ==
    IF c \in Range(UpperLetters)
    THEN LowerLetters[CHOOSE i \in DOMAIN UpperLetters : UpperLetters[i] = c]
    ELSE c

\* strings.ToLower
ToLower(s) == [i \in DOMAIN s |-> toLowerChar(s[i])]

RECURSIVE TrimLeft(_)
TrimLeft(s) == IF s # <<>> /\ IsSpace(Head(s)) THEN TrimLeft(Tail(s)) ELSE s

RECURSIVE TrimRight(_)
TrimRight(s) ==
    IF s # <<>> /\ IsSpace(s[Len(s)])
    THEN TrimRight(SubSeq(s, 1, Len(s) - 1))
    ELSE s

\* strings.TrimSpace
TrimSpace(s) == TrimRight(TrimLeft(s))

\* strings.HasSuffix
HasSuffix(s, suffix) ==
    /\ Len(s) >= Len(suffix)
    /\ SubSeq(s, Len(s) - Len(suffix) + 1, Len(s)) = suffix

HasPrefix(s, prefix) ==
    /\ Len(s) >= Len(prefix)
    /\ SubSeq(s, 1, Len(prefix)) = prefix

Drop(s, n) == SubSeq(s, n + 1, Len(s))

\* strings.Fields: the maximal runs of non-space characters.
RECURSIVE fieldsFrom(_, _)
fieldsFrom(s, word) ==
    IF s = <<>> THEN (IF word = <<>> THEN <<>> ELSE <<word>>)
    ELSE IF IsSpace(Head(s))
         THEN (IF word = <<>> THEN <<>> ELSE <<word>>) \o fieldsFrom(Tail(s), <<>>)
         ELSE fieldsFrom(Tail(s), Append(word, Head(s)))

Fields(s) == fieldsFrom(s, <<>>)

\* strings.Split(s, sep) for a one-character separator.
RECURSIVE splitFrom(_, _, _)
splitFrom(s, sep, part) ==
    IF s = <<>> THEN <<part>>
    ELSE IF Head(s) = sep
         THEN <<part>> \o splitFrom(Tail(s), sep, <<>>)
         ELSE splitFrom(Tail(s), sep, Append(part, Head(s)))

Split(s, sep) == splitFrom(s, sep, <<>>)

\* strings.ReplaceAll: the non-overlapping occurrences of old, left to right;
\* an empty old matches before every character and at the end.
RECURSIVE replaceFrom(_, _, _)
replaceFrom(s, old, new) ==
    IF Len(s) < Len(old) THEN s
    ELSE IF HasPrefix(s, old)
         THEN new \o replaceFrom(Drop(s, Len(old)), old, new)
         ELSE <<Head(s)>> \o replaceFrom(Tail(s), old, new)

RECURSIVE interleave(_, _)
interleave(s, new) ==
    IF s = <<>> THEN new ELSE new \o <<Head(s)>> \o interleave(Tail(s), new)

ReplaceAll(s, old, new) ==
    IF old = <<>> THEN interleave(s, new) ELSE replaceFrom(s, old, new)

\* keepCharsRE.ReplaceAllString(ln, ""): [^a-zA-Z0-9 ]+ deleted.
keepChars(s) == SelectSeq(s, LAMBDA c : IsAlnum(c) \/ c = " ")

\* keepCharsAndAnglesRE.ReplaceAllString(ln, ""): [^a-zA-Z0-9 <>]+ deleted.
keepCharsAndAngles(s) ==
    SelectSeq(s, LAMBDA c : IsAlnum(c) \/ c \in {" ", "<", ">"})

\* The number of characters [a-zA-Z0-9] s starts with.
RECURSIVE alnumRun(_)
alnumRun(s) ==
    IF s # <<>> /\ IsAlnum(Head(s)) THEN 1 + alnumRun(Tail(s)) ELSE 0

\* The length of the match of  </?[a-zA-Z0-9]+> ?  at the start of s, 0 if
\* there is none.
tagLen(s) ==
    IF s = <<>> \/ Head(s) # "<" THEN 0
    ELSE LET slash == IF Len(s) >= 2 /\ s[2] = "/" THEN 1 ELSE 0
             name  == alnumRun(Drop(s, 1 + slash))
             close == 1 + slash + name + 1
         IN  IF name = 0 \/ Len(s) < close \/ s[close] # ">" THEN 0
             ELSE IF Len(s) > close /\ s[close + 1] = " " THEN close + 1
             ELSE close

\* The length of the match of removeHTMLRE,  ?</?[a-zA-Z0-9]+> ? , at the
\* start of s, 0 if there is none.
htmlLen(s) ==
    IF s # <<>> /\ Head(s) = " " /\ tagLen(Tail(s)) > 0
    THEN 1 + tagLen(Tail(s))
    ELSE tagLen(s)

\* removeHTMLRE.ReplaceAllString(ln, "")
RECURSIVE removeHTMLTags(_)
removeHTMLTags(s) ==
    IF s = <<>> THEN s
    ELSE IF htmlLen(s) > 0 THEN removeHTMLTags(Drop(s, htmlLen(s)))
    ELSE <<Head(s)>> \o removeHTMLTags(Tail(s))

\* normalize: the tokens of a line and whether it ends in a broken word.
normalize_dashOnly(ln, removeHTML) ==
    LET trimmed == TrimSpace(ln)
        broken  == HasSuffix(trimmed, <<"-">>)
        lowered == TrimSpace(ToLower(trimmed))
        noHTML  == IF removeHTML
                   THEN removeHTMLTags(keepCharsAndAngles(lowered))
                   ELSE lowered
    IN  IF Len(trimmed) = 0
        THEN [tokens |-> <<>>, broken |-> FALSE]
        ELSE [tokens |-> Fields(keepChars(noHTML)), broken |-> broken]

\* normalize with HTML mode reducing the line and leaving the tags in.
normalize_tagsKept(ln, removeHTML) ==
    LET trimmed == TrimSpace(ln)
        broken  == Len(trimmed) > 1 /\ HasSuffix(trimmed, <<"-">>)
        lowered == TrimSpace(ToLower(trimmed))
        noHTML  == IF removeHTML THEN keepCharsAndAngles(lowered) ELSE lowered
    IN  IF Len(trimmed) = 0
        THEN [tokens |-> <<>>, broken |-> FALSE]
        ELSE [tokens |-> Fields(keepChars(noHTML)), broken |-> broken]

normalize(ln, removeHTML) ==
    LET trimmed == TrimSpace(ln)
        broken  == Len(trimmed) > 1 /\ HasSuffix(trimmed, <<"-">>)
        lowered == TrimSpace(ToLower(trimmed))
        noHTML  == IF removeHTML
                   THEN removeHTMLTags(keepCharsAndAngles(lowered))
                   ELSE lowered
    IN  IF Len(trimmed) = 0
        THEN [tokens |-> <<>>, broken |-> FALSE]
        ELSE [tokens |-> Fields(keepChars(noHTML)), broken |-> broken]

----------------------------------------------------------------------------
(* SpecNorm: normalize called on any short line.                           *)

\* The pieces lines are put together from, and a few lines given whole.
NormPieces ==
    { <<"a">>, <<"B">>, <<"1">>, <<" ">>, <<"\t">>, <<"-">>, <<"!">>, <<"é">>,
      <<"<", "b", ">">>, <<"<", "/", "b", ">">> }

ExHello == <<"H", "e", "l", "l", "o", ",", " ", "W", "o", "r", "l", "d", "!">>
ExCo    == <<"c", "o", "-">>
ExDash  == <<"-">>
ExBlank == <<" ", "\t", " ">>

RECURSIVE piecesUpTo(_)
piecesUpTo(n) ==
    IF n = 0 THEN { <<>> }
    ELSE piecesUpTo(n - 1)
            \cup { l \o p : l \in piecesUpTo(n - 1), p \in NormPieces }

\* Lines with a tag: a space on each side; two spaces on each side of a
\* closing tag in uppercase; punctuation between the tag and the next space.
ExTagOne   == <<"a", " ", "<", "b", ">", " ", "B", "-">>
ExTagTwo   == <<"a", " ", " ", "<", "/", "B", ">", " ", " ", "1">>
ExTagPunct == <<"a", "<", "b", ">", "!", " ", "c">>

NormLines ==
    piecesUpTo(MaxPieces)
        \cup {ExHello, ExCo, ExDash, ExBlank, ExTagOne, ExTagTwo, ExTagPunct}

InitNorm ==
    /\ words = makeStats
    /\ letters = makeStats
    /\ calls = [d \in Dims |-> NoCalls]
    /\ ConcIdle
    /\ PipeIdle

\* normalize(ln, removeHTML) as processFile calls it: the line is what the
\* scanner returned, the results go to curr and currBroken.
normalize_call ==
    /\ scanned = <<>>
    /\ \E ln \in NormLines, removeHTML \in BOOLEAN :
          LET n == normalize(ln, removeHTML)
          IN  /\ h' = [h EXCEPT !.removeHTML = removeHTML]
              /\ scanned' = << [lines |-> <<ln>>, ended |-> "open"] >>
              /\ pf' = [pf EXCEPT !.curr = n.tokens, !.currBroken = n.broken]
    /\ UNCHANGED <<words, letters, calls>>
    /\ UNCHANGED concVars
    /\ UNCHANGED <<flags, args, run, emitted, results, report>>

NextNorm == normalize_call

SpecNorm == InitNorm /\ [][NextNorm]_vars

----------------------------------------------------------------------------
(* processLine.                                                            *)

\* The loop over h.swapNGrams: every swap is applied to word, and the result
\* of the last one is kept.
RECURSIVE swapLoop(_, _, _)
swapLoop(word, swapped, swaps) ==
    IF swaps = <<>> THEN swapped
    ELSE swapLoop(word, ReplaceAll(word, Head(swaps).from, Head(swaps).to), Tail(swaps))

\* The loop with every swap applied to the result of the one before.
RECURSIVE swapChained(_, _)
swapChained(swapped, swaps) ==
    IF swaps = <<>> THEN swapped
    ELSE swapChained(ReplaceAll(swapped, Head(swaps).from, Head(swaps).to), Tail(swaps))

swapWord_chained(word, swaps) == swapChained(word, swaps)

swapWord(word, swaps) == swapLoop(word, word, swaps)

\* inc(&h.letters, string(char), "", remove) for every char of word.
RECURSIVE incRawChars(_, _, _)
incRawChars(stats, word, remove) ==
    IF word = <<>> THEN stats
    ELSE incRawChars(inc(stats, <<Head(word)>>, <<>>, remove), Tail(word), remove)

\* inc(&h.letters, "", string(char), remove) for every char of swapped.
RECURSIVE incSwappedChars(_, _, _)
incSwappedChars(stats, swapped, remove) ==
    IF swapped = <<>> THEN stats
    ELSE incSwappedChars(inc(stats, <<>>, <<Head(swapped)>>, remove), Tail(swapped), remove)

\* The iteration with the removed flag looked up by the swapped form.
processWord_removeBySwapped(hd, st, word) ==
    LET swapped == swapWord(word, hd.swapNGrams)
        remove  == swapped \in hd.removeWords
    IN  [ words   |-> inc(st.words, word, swapped, remove),
          letters |-> incSwappedChars(incRawChars(st.letters, word, remove),
                                      swapped, remove) ]

\* The iteration that counts the word in the universal set itself before
\* calling inc, as processLine once did.
processWord_countedTwice(hd, st, word) ==
    LET swapped == swapWord(word, hd.swapNGrams)
        remove  == word \in hd.removeWords
        counted == [st.words EXCEPT !.count = @ + 1, !.universal = incX(@, word)]
    IN  [ words   |-> inc(counted, word, swapped, remove),
          letters |-> incSwappedChars(incRawChars(st.letters, word, remove),
                                      swapped, remove) ]

\* The iteration with the second letter loop running over the raw word.
processWord_lettersFromRaw(hd, st, word) ==
    LET swapped == swapWord(word, hd.swapNGrams)
        remove  == word \in hd.removeWords
    IN  [ words   |-> inc(st.words, word, swapped, remove),
          letters |-> incSwappedChars(incRawChars(st.letters, word, remove),
                                      word, remove) ]

\* One iteration of processLine's loop, on the pair st = [words, letters].
processWord(hd, st, word) ==
    LET swapped == swapWord(word, hd.swapNGrams)
        remove  == word \in hd.removeWords
    IN  [ words   |-> inc(st.words, word, swapped, remove),
          letters |-> incSwappedChars(incRawChars(st.letters, word, remove),
                                      swapped, remove) ]

RECURSIVE processLine(_, _, _)
processLine(hd, st, ln) ==
    IF ln = <<>> THEN st
    ELSE processLine(hd, processWord(hd, st, Head(ln)), Tail(ln))

----------------------------------------------------------------------------
(* Spec: run, from the flags and arguments to the reports.                 *)

\* The flag values and arguments a run is started with.
SwapThX  == <<"t", "h", ",", "x">>      \* -s=th,x
SwapE    == <<"E", ",">>                \* -s=E,   (e deleted)
SwapBad  == <<"t", "h", "x">>           \* -s=thx  (no comma)
SwapLists ==
    { <<>>, <<SwapThX>>, <<SwapE, SwapThX>>,
      <<SwapBad>>, <<SwapThX, SwapBad>>, <<SwapBad, SwapThX>> }
RemoveSets == { {}, {<<"t", "h", "e">>} }

\* Every swap list with every remove set, and -html on its own.
FlagSets ==
    [swap : SwapLists, remove : RemoveSets, html : {FALSE}]
        \cup [swap : {<<>>}, remove : {{}}, html : {TRUE}]

FileA   == <<"a", ".", "t", "x", "t">>  \* exists
FileN   == <<"n", ".", "t", "x", "t">>  \* does not exist
FileMd  == <<"c", ".", "m", "d">>       \* exists, not a .txt
ExistingFiles == {FileA, FileMd}
ArgLists ==
    { <<FileA>>, <<FileA, FileA>>, <<FileMd>>, <<FileN>>,
      <<FileA, FileMd>>, <<FileA, FileN>>, <<FileMd, FileA>> }

\* The lines a scanner may return.
ScanLines ==
    { <<"t", "h", "e">>,             \* the
      <<"T", "h", "-">>,             \* Th-   broken
      <<"e", " ", "a">>,             \* e a
      <<"!", "-">>,                  \* !-    broken, no token
      <<"<", "a", ">", "e">> }       \* <a>e

Init ==
    /\ words = makeStats
    /\ letters = makeStats
    /\ calls = [d \in Dims |-> NoCalls]
    /\ ConcIdle
    /\ flags \in FlagSets
    /\ args \in ArgLists
    /\ h = newHandler
    /\ run = [pc |-> "start", i |-> 0, err |-> ""]
    /\ pf = NoLocals
    /\ scanned = <<>>
    /\ emitted = <<>>
    /\ results = <<>>
    /\ report = <<>>

PipeFrame == UNCHANGED <<calls, m, ctr, task, issued, flags, args>>

\* parseFlags: the handler it leaves, and whether it returned an error.
RECURSIVE parseSwaps(_, _)
parseSwaps(specs, acc) ==
    IF specs = <<>> THEN [ok |-> TRUE, swaps |-> acc]
    ELSE LET parts == Split(ToLower(Head(specs)), ",")
         IN  IF Len(parts) # 2
             THEN [ok |-> FALSE, swaps |-> acc]
             ELSE parseSwaps(Tail(specs),
                             Append(acc, [from |-> parts[1], to |-> parts[2]]))

parseFlags(hd, fl) ==
    LET p == parseSwaps(fl.swap, hd.swapNGrams)
    IN  IF p.ok
        THEN [ok |-> TRUE,
              h  |-> [removeWords |-> hd.removeWords \cup fl.remove,
                      swapNGrams  |-> p.swaps,
                      removeHTML  |-> fl.html]]
        ELSE [ok |-> FALSE, h |-> [hd EXCEPT !.swapNGrams = p.swaps]]

\* The precheck of run: every argument ends in .txt and os.Stat finds it.
validArg_suffixOnly(arg) == HasSuffix(arg, <<".", "t", "x", "t">>)

validArg(arg) == HasSuffix(arg, <<".", "t", "x", "t">>) /\ arg \in ExistingFiles

\* run up to the file loop: parseFlags and the precheck of the arguments.
run_start ==
    /\ run.pc = "start"
    /\ LET p == parseFlags(h, flags)
       IN  /\ h' = p.h
           /\ run' = IF ~p.ok
                     THEN [pc |-> "failed", i |-> 0, err |-> "parsing flags"]
                     ELSE IF \E i \in DOMAIN args : ~validArg(args[i])
                     THEN [pc |-> "failed", i |-> 0, err |-> "invalid file"]
                     ELSE [pc |-> "files", i |-> 1, err |-> ""]
    /\ UNCHANGED <<words, letters, pf, scanned, emitted, results, report>>
    /\ PipeFrame

LinesScanned == LET RECURSIVE total(_)
                    total(sc) == IF sc = <<>> THEN 0
                                 ELSE Len(Head(sc).lines) + total(Tail(sc))
                IN  total(scanned)

\* runFile: os.Open succeeds, processFile starts with its locals zero.
runFile_open ==
    /\ run.pc = "files"
    /\ run.i <= Len(args)
    /\ run' = [run EXCEPT !.pc = "scan"]
    /\ pf' = NoLocals
    /\ scanned' = Append(scanned, [lines |-> <<>>, ended |-> "open"])
    /\ emitted' = Append(emitted, <<>>)
    /\ UNCHANGED <<words, letters, h, results, report>>
    /\ PipeFrame

\* runFile: os.Open fails; run returns the error.
runFile_openError_continue ==
    /\ run.pc = "files"
    /\ run.i <= Len(args)
    /\ results' = Append(results, "error")
    /\ run' = [run EXCEPT !.i = @ + 1]
    /\ UNCHANGED <<words, letters, h, pf, scanned, emitted, report>>
    /\ PipeFrame

runFile_openError ==
    /\ run.pc = "files"
    /\ run.i <= Len(args)
    /\ results' = Append(results, "error")
    /\ run' = [run EXCEPT !.pc = "failed", !.err = "executing command"]
    /\ UNCHANGED <<words, letters, h, pf, scanned, emitted, report>>
    /\ PipeFrame

\* prev as processLine gets it in the loop body, and curr after the stitch.
stitches(l) == l.prev # <<>> /\ l.prevBroken /\ l.curr # <<>>
stitchedPrev(l) ==
    IF stitches(l)
    THEN [l.prev EXCEPT ![Len(l.prev)] = l.prev[Len(l.prev)] \o l.curr[1]]
    ELSE l.prev
stitchedCurr_keep(l) == l.curr

stitchedCurr(l) == IF stitches(l) THEN Tail(l.curr) ELSE l.curr

\* processFile: scanner.Scan() returns true; one pass of the loop body, as
\* long as fewer than bound lines were read.
scanLine(bound, lines) ==
    /\ run.pc = "scan"
    /\ LinesScanned < bound
    /\ \E ln \in lines :
          LET out == IF pf.prev # <<>> THEN stitchedPrev(pf) ELSE <<>>
              st  == processLine(h, [words |-> words, letters |-> letters], out)
              n   == normalize(ln, h.removeHTML)
          IN  /\ words' = st.words
              /\ letters' = st.letters
              /\ emitted' = [emitted EXCEPT ![Len(emitted)] = @ \o out]
              /\ pf' = [ prev       |-> stitchedCurr(pf),
                         prevBroken |-> pf.currBroken,
                         curr       |-> n.tokens,
                         currBroken |-> n.broken ]
              /\ scanned' = [scanned EXCEPT ![Len(scanned)].lines = Append(@, ln)]
    /\ UNCHANGED <<h, run, results, report>>
    /\ PipeFrame

processFile_line == scanLine(MaxLines, ScanLines)

\* processFile after the loop: processLine(curr) and return nil; runFile
\* returns nil and run goes on to the next file.
afterLoop(how) ==
    /\ run.pc = "scan"
    /\ LET st == processLine(h, [words |-> words, letters |-> letters], pf.curr)
       IN  /\ words' = st.words
           /\ letters' = st.letters
           /\ emitted' = [emitted EXCEPT ![Len(emitted)] = @ \o pf.curr]
    /\ scanned' = [scanned EXCEPT ![Len(scanned)].ended = how]
    /\ results' = Append(results, "nil")
    /\ run' = [run EXCEPT !.pc = "files", !.i = @ + 1]
    /\ UNCHANGED <<h, pf, report>>
    /\ PipeFrame

\* scanner.Scan() returns false at the end of the file.
processFile_eof == afterLoop("eof")

\* scanner.Scan() returns false because a read failed (scanner.Err() # nil).
processFile_readError == afterLoop("read error")

\* What a panic may carry: a value that implements error (a runtime.Error,
\* say), or any other value (a string, as bufio's own panics carry).
PanicValues == {"error", "string"}

\* A panic in the loop of processFile, raised before the next line is
\* counted (by scanner.Scan(), say).  The deferred function recovers it and
\* asserts r.(error): for an error, processFile returns it and run returns it
\* wrapped; for any other value the assertion panics in turn and the process
\* ends.
processFile_panic ==
    /\ run.pc = "scan"
    /\ \E r \in PanicValues :
          IF r = "error"
          THEN /\ results' = Append(results, "error")
               /\ run' = [run EXCEPT !.pc = "failed", !.err = "executing command"]
          ELSE /\ results' = results
               /\ run' = [run EXCEPT !.pc = "crashed"]
    /\ scanned' = [scanned EXCEPT ![Len(scanned)].ended = "panic"]
    /\ UNCHANGED <<words, letters, h, pf, emitted, report>>
    /\ PipeFrame

\* The top-N run passes to print for each dimension.
WordsTop   == 10
LettersTop == 0

\* The keys of a view in some order, and in the opposite order.
RECURSIVE someOrder(_)
someOrder(ks) ==
    IF ks = {} THEN <<>>
    ELSE LET k == CHOOSE x \in ks : TRUE
         IN  <<k>> \o someOrder(ks \ {k})

reversed(seq) == [i \in DOMAIN seq |-> seq[Len(seq) + 1 - i]]

viewOrders(stats, flip) ==
    [v \in {"universal", "removed", "swapped", "both"} |->
        IF flip THEN reversed(someOrder(DOMAIN stats[v]))
        ELSE someOrder(DOMAIN stats[v])]

\* Orders Range may visit the views of the two bundles in.  Of all the
\* orders (see printOrders) run is given two here, one and its opposite; the
\* views of a run have too many keys to go through all of them.
someOrders ==
    { [words |-> viewOrders(words, flip), letters |-> viewOrders(letters, flip)] :
        flip \in BOOLEAN }

\* run after the file loop: print words, print letters, return nil.
run_print_early ==
    /\ run.pc = "files"
    /\ run.i >= Len(args)
    /\ \E o \in someOrders :
          report' = << print(words, "words", WordsTop, o.words),
                       print(letters, "letters", LettersTop, o.letters) >>
    /\ run' = [run EXCEPT !.pc = "done"]
    /\ UNCHANGED <<words, letters, h, pf, scanned, emitted, results>>
    /\ PipeFrame

run_print ==
    /\ run.pc = "files"
    /\ run.i > Len(args)
    /\ \E o \in someOrders :
          report' = << print(words, "words", WordsTop, o.words),
                       print(letters, "letters", LettersTop, o.letters) >>
    /\ run' = [run EXCEPT !.pc = "done"]
    /\ UNCHANGED <<words, letters, h, pf, scanned, emitted, results>>
    /\ PipeFrame

Next ==
    \/ run_start
    \/ runFile_open
    \/ runFile_openError
    \/ processFile_line
    \/ processFile_eof
    \/ processFile_readError
    \/ processFile_panic
    \/ run_print

Spec == Init /\ [][Next]_vars

----------------------------------------------------------------------------
(* SpecFile: run over one or two files read for more lines, without flags. *)

InitFile ==
    /\ Init
    /\ flags = [swap |-> <<>>, remove |-> {}, html |-> FALSE]
    /\ args \in { <<FileA>>, <<FileA, FileA>> }

\* The lines a scanner may return here.
FileLines ==
    { <<"t", "h", "e">>,             \* the
      <<"T", "h", "-">>,             \* Th-   broken
      <<"e", " ", "a", "-">>,        \* e a-  broken, two tokens
      <<"!", "-">> }                 \* !-    broken, no token

processFile_longLine == scanLine(MaxFileLines, FileLines)

NextFile ==
    \/ run_start
    \/ runFile_open
    \/ runFile_openError
    \/ processFile_longLine
    \/ processFile_eof
    \/ processFile_readError
    \/ processFile_panic
    \/ run_print

SpecFile == InitFile /\ [][NextFile]_vars

----------------------------------------------------------------------------
(* SpecLine: processLine called on any lines of tokens.                    *)

\* The flags the handler was set up with: no swap, a swap that shortens, one
\* that deletes, one that lengthens, one with an empty left side (ReplaceAll
\* then puts the right side around every character); with and without a
\* removed word.
LineSwaps ==
    { <<>>,
      << <<"t", "h", ",", "x">> >>,
      << <<"e", ",">> >>,
      << <<"a", ",", "o", "o">> >>,
      << <<",", "x">> >> }

LineFlagSets == [swap : LineSwaps, remove : RemoveSets, html : {FALSE}]

LineTokens == { <<"t", "h", "e">>, <<"a">>, <<"e">> }

TokenLines ==
    { <<>> } \cup { <<t>> : t \in LineTokens }
             \cup { <<t, u>> : t \in LineTokens, u \in LineTokens }

InitLine ==
    /\ words = makeStats
    /\ letters = makeStats
    /\ calls = [d \in Dims |-> NoCalls]
    /\ ConcIdle
    /\ flags \in LineFlagSets
    /\ h = parseFlags(newHandler, flags).h
    /\ args = <<>>
    /\ run = [pc |-> "idle", i |-> 0, err |-> ""]
    /\ pf = NoLocals
    /\ scanned = <<>>
    /\ emitted = <<>>
    /\ results = <<>>
    /\ report = <<>>

\* h.processLine(ctx, ln)
processLine_call ==
    /\ Len(emitted) < MaxLineCalls
    /\ \E ln \in TokenLines :
          LET st == processLine(h, [words |-> words, letters |-> letters], ln)
          IN  /\ words' = st.words
              /\ letters' = st.letters
              /\ emitted' = Append(emitted, ln)
    /\ UNCHANGED calls
    /\ UNCHANGED concVars
    /\ UNCHANGED <<flags, args, h, run, pf, scanned, results, report>>

NextLine == processLine_call

SpecLine == InitLine /\ [][NextLine]_vars

----------------------------------------------------------------------------
(* Claims about incX under concurrent callers (SpecConc).                  *)

Quiescent == \A t \in Tasks : task[t].pc = "idle"

\* C1: when tasks call incX concurrently with the same key, then once all
\* the calls have returned the view holds, for every key, the number of calls
\* made with it: no increment is lost and no counter that was already
\* incremented is replaced by a first insertion.
C1_NoLostIncrement ==
    (task # <<>> /\ Quiescent) =>
        \A k \in ConcKeys \ {<<>>} : viewValue(k) = issued[k]

----------------------------------------------------------------------------
(* Claims about inc (SpecInc).                                             *)

bundle(d) == IF d = "words" THEN words ELSE letters

ViewNames == {"universal", "removed", "swapped", "both"}
TotalNames == {"count", "countSwapped", "countRemoved", "countBoth"}

\* Between two bundles no total and no per-key count went down.
NotDecreased(s, t) ==
    /\ \A c \in TotalNames : t[c] >= s[c]
    /\ \A v \in ViewNames : \A k \in DOMAIN s[v] :
          k \in DOMAIN t[v] /\ t[v][k] >= s[v][k]

C4_Now ==
    \A d \in Dims :
        /\ bundle(d).count = calls[d].raw
        /\ bundle(d).count = SumView(bundle(d).universal)

C4_Step == NotDecreased(words, words') /\ NotDecreased(letters, letters')

\* C4: after any sequence of inc calls the universal total equals the number
\* of calls made with a non-empty raw unit and equals the sum of the counts
\* of the universal view, and no total and no per-key count ever decreases
\* from one state to the next.
C4_UniversalTotal == [](C4_Now) /\ [][C4_Step]_vars

\* Raw units were counted, one key twice, and one call had no raw unit.
C4_Witness ==
    /\ calls["words"].n > calls["words"].raw
    /\ words.count = 2
    /\ \E k \in DOMAIN words.universal : words.universal[k] = 2

\* C5: after any sequence of inc calls the counts of the removed view sum to
\* count - countRemoved, countRemoved being the number of calls with a
\* non-empty raw unit and removed = TRUE; that difference is the total print
\* shows for the removed column and divides its cells by.
C5_RemovedTotal ==
    \A d \in Dims :
        /\ bundle(d).countRemoved = calls[d].rawRemoved
        /\ SumView(bundle(d).removed) = bundle(d).count - bundle(d).countRemoved
        /\ printTotals(bundle(d))[2] = SumView(bundle(d).removed)

\* Kept and removed raw units were counted, and one removed call had no raw
\* unit.
C5_Witness ==
    /\ letters.countRemoved = 1
    /\ letters.removed # EmptyView
    /\ calls["letters"].swpRemoved > calls["letters"].rawRemoved

C6_Now ==
    \A d \in Dims :
        /\ bundle(d).countBoth <= bundle(d).countSwapped
        /\ \A k \in DOMAIN bundle(d).both :
              /\ k \in DOMAIN bundle(d).swapped
              /\ bundle(d).both[k] <= bundle(d).swapped[k]

\* What a call with removed = TRUE and a non-empty swapped unit does to a
\* bundle s, giving t.
RemovedSwapEffect(s, t) ==
    /\ t.countSwapped = s.countSwapped + 1
    /\ \E u \in SwpUnits \ {<<>>} :
          /\ u \in DOMAIN t.swapped
          /\ t.swapped[u] = At(s.swapped, u) + 1
          /\ DOMAIN t.swapped = DOMAIN s.swapped \cup {u}
          /\ \A k \in DOMAIN s.swapped \ {u} : t.swapped[k] = s.swapped[k]
    /\ t.countBoth = s.countBoth
    /\ t.both = s.both

C6_Step ==
    /\ calls'["words"].swpRemoved > calls["words"].swpRemoved
          => RemovedSwapEffect(words, words')
    /\ calls'["letters"].swpRemoved > calls["letters"].swpRemoved
          => RemovedSwapEffect(letters, letters')

\* C6: after any sequence of inc calls the both total is at most the swapped
\* total and both[k] <= swapped[k] for every key, and a call with
\* removed = TRUE and a non-empty swapped unit s adds one to swapped[s] and to
\* the swapped total and leaves the both view and the both total unchanged.
C6_BothWithinSwapped == [](C6_Now) /\ [][C6_Step]_vars

\* "xe" was counted once for a removed unit and once for a kept one.
C6_Witness ==
    /\ calls["words"].swpRemoved = 1
    /\ At(words.swapped, <<"x", "e">>) = 2
    /\ At(words.both, <<"x", "e">>) = 1

\* What one step may do to a bundle, s before and t after, given the call
\* log of the bundle before (c) and after (d): a call with an empty raw unit
\* leaves the universal side alone, a call with an empty swapped unit the
\* swapped side, a call with both empty everything, and so does a step that
\* is no call on this bundle.
FrameEffect(c, d, s, t) ==
    /\ (d.n = c.n + 1 /\ d.raw = c.raw) =>
          /\ t.count = s.count
          /\ t.universal = s.universal
          /\ t.removed = s.removed
          /\ t.countRemoved = s.countRemoved
    /\ (d.n = c.n + 1 /\ d.swp = c.swp) =>
          /\ t.countSwapped = s.countSwapped
          /\ t.swapped = s.swapped
          /\ t.countBoth = s.countBoth
          /\ t.both = s.both
    /\ (d.n = c.n + 1 /\ d.raw = c.raw /\ d.swp = c.swp) => t = s
    /\ d.n = c.n => t = s

C21_Step ==
    /\ FrameEffect(calls["words"], calls'["words"], words, words')
    /\ FrameEffect(calls["letters"], calls'["letters"], letters, letters')

\* C21: an inc call with an empty raw unit leaves the universal total, the
\* universal view, the removed view and countRemoved as they were, removed or
\* not; one with an empty swapped unit leaves the swapped and both totals and
\* views as they were; one with both empty changes nothing; and a call on
\* one bundle leaves the other bundle as it was.
C21_EmptyUnitsFrame == [][C21_Step]_vars

\* On words: a call with both units empty and a call with removed = TRUE, an
\* empty raw unit and a swapped unit; nothing on the universal side moved.
C21_Witness ==
    /\ calls["words"].n = 2
    /\ calls["words"].raw = 0
    /\ calls["words"].swpRemoved = 1
    /\ words.countSwapped = 1
    /\ words.count = 0
    /\ words.countRemoved = 0

----------------------------------------------------------------------------
(* Claims about the run (Spec).                                            *)

RECURSIVE Flatten(_)
Flatten(ss) == IF ss = <<>> THEN <<>> ELSE Head(ss) \o Flatten(Tail(ss))

\* Every token handed to processLine so far, over all files, in order.
AllEmitted == Flatten(emitted)

Count(seq, x) == Cardinality({i \in DOMAIN seq : seq[i] = x})
BagOf(seq) == [k \in Range(seq) |-> Count(seq, k)]

\* The tokens of the lines the scanner of file f returned, line by line.
lineTokens(f) ==
    [i \in DOMAIN scanned[f].lines |->
        normalize(scanned[f].lines[i], h.removeHTML).tokens]

\* File f was read to its end and processFile has returned.
Consumed(f) == scanned[f].ended = "eof"

\* C2: once processFile has consumed a file, the tokens of all its lines
\* have gone to processLine exactly once, as themselves or inside a stitched
\* token, in input order: the characters handed on are the characters of the
\* lines' tokens, and only tokens across line ends were joined.
C2_EveryLineOnce ==
    \A f \in DOMAIN scanned :
        Consumed(f) =>
            LET input == Flatten(lineTokens(f))
            IN  /\ Flatten(emitted[f]) = Flatten(input)
                /\ Len(emitted[f]) <= Len(input)
                /\ \/ Len(input) = Len(emitted[f])
                   \/ Len(input) - Len(emitted[f]) < Len(scanned[f].lines)

\* Line i of file f is a broken line A followed by a line B, both with tokens.
brokenPair(f, i) ==
    LET a == TrimSpace(scanned[f].lines[i])
    IN  /\ Len(a) > 1
        /\ HasSuffix(a, <<"-">>)
        /\ lineTokens(f)[i] # <<>>
        /\ lineTokens(f)[i + 1] # <<>>

\* At position j the stream out holds a's last token joined to b's first,
\* followed by b's other tokens in order (the last of them possibly joined
\* to the line after b).
stitchedAt(out, j, a, b) ==
    /\ out[j] = a[Len(a)] \o b[1]
    /\ j + Len(b) - 1 <= Len(out)
    /\ \A r \in 2..Len(b) :
          IF r < Len(b) THEN out[j + r - 1] = b[r]
          ELSE HasPrefix(out[j + r - 1], b[r])

\* C3: for consecutive lines A, B of one file, A ending in '-' with more than
\* one character and both with tokens, the emitted stream holds A's last
\* token joined to B's first as one token, followed by B's remaining tokens,
\* wherever A and B are in the file.
C3_BrokenWordStitched ==
    \A f \in DOMAIN scanned :
        Consumed(f) =>
            \A i \in 1..(Len(scanned[f].lines) - 1) :
                brokenPair(f, i) =>
                    \E j \in DOMAIN emitted[f] :
                        stitchedAt(emitted[f], j, lineTokens(f)[i], lineTokens(f)[i + 1])

NotRemoved(tok) == tok \notin flags.remove

\* C7: every occurrence of a token of the remove set adds one to the words
\* universal total, to its universal count and to countRemoved and nothing to
\* the removed view; a token is removed iff it is a member of the remove set,
\* whatever the swaps are.
C7_RemovedWords ==
    /\ words.count = Len(AllEmitted)
    /\ \A tok \in flags.remove :
          /\ At(words.universal, tok) = Count(AllEmitted, tok)
          /\ tok \notin DOMAIN words.removed
    /\ words.countRemoved = Len(AllEmitted) - Len(SelectSeq(AllEmitted, NotRemoved))
    /\ words.removed = BagOf(SelectSeq(AllEmitted, NotRemoved))

\* "the" is removed and swapped to "xe"; it and another word were processed.
C7_Witness ==
    /\ h.swapNGrams # <<>>
    /\ words.countRemoved >= 1
    /\ At(words.universal, <<"t", "h", "e">>) >= 1
    /\ words.removed # EmptyView

\* C8: with no remove words and no swaps, the four totals of the words bundle
\* all equal the number of tokens processed and the four views are equal.
C8_NoFlagsAllEqual ==
    (flags.swap = <<>> /\ flags.remove = {}) =>
        /\ \A c \in 1..4 : printTotals(words)[c] = Len(AllEmitted)
        /\ words.universal = BagOf(AllEmitted)
        /\ words.removed = words.universal
        /\ words.swapped = words.universal
        /\ words.both = words.universal

C8_Witness ==
    /\ flags.swap = <<>>
    /\ flags.remove = {}
    /\ Len(AllEmitted) >= 3
    /\ \E k \in DOMAIN words.both : words.both[k] = 2

\* The swapped form the claim gives a token under the handler's swap list.
lastSwapOnly(tok) ==
    IF h.swapNGrams = <<>> THEN tok
    ELSE LET last == h.swapNGrams[Len(h.swapNGrams)]
         IN  ReplaceAll(tok, last.from, last.to)

NonEmpty(unit) == unit # <<>>

\* C9: the swapped form of a token is the token itself when there are no
\* swaps, and otherwise the token with the last declared swap replaced
\* throughout; the swaps are kept in the order of the flag values.
C9_LastSwapWins ==
    /\ run.pc \notin {"start", "failed"} =>
          /\ Len(h.swapNGrams) = Len(flags.swap)
          /\ \A i \in DOMAIN flags.swap :
                h.swapNGrams[i].from \o <<",">> \o h.swapNGrams[i].to
                    = ToLower(flags.swap[i])
    /\ words.swapped =
          BagOf(SelectSeq([i \in DOMAIN AllEmitted |-> lastSwapOnly(AllEmitted[i])],
                          NonEmpty))

\* Two swaps, e deleted and then th -> x: "the" was counted as "xe".
C9_Witness ==
    /\ Len(h.swapNGrams) = 2
    /\ At(words.swapped, <<"x", "e">>) >= 1
    /\ At(words.swapped, <<"a">>) >= 1

\* C10: a failure while reading a file, at open or in the middle, comes back
\* from runFile as an error: runFile returns nil only for a file that was
\* opened and read to its end.
C10_ReadFailureSurfaced ==
    \A f \in DOMAIN results :
        results[f] = "nil" => (f \in DOMAIN scanned /\ scanned[f].ended = "eof")


----------------------------------------------------------------------------
(* Claims about run's validation and error paths (Spec).                   *)

commas(spec) == Len(SelectSeq(spec, LAMBDA c : c = ","))
MalformedSwap == \E i \in DOMAIN flags.swap : commas(flags.swap[i]) # 1
OffendingArg(i) ==
    \/ ~HasSuffix(args[i], <<".", "t", "x", "t">>)
    \/ args[i] \notin ExistingFiles
ValidationFails == MalformedSwap \/ \E i \in DOMAIN args : OffendingArg(i)

NothingProcessed ==
    /\ words = makeStats
    /\ letters = makeStats
    /\ scanned = <<>>
    /\ emitted = <<>>
    /\ results = <<>>
    /\ report = <<>>

\* C11: when a swap spec has not exactly two comma-separated parts, or some
\* file argument (at any position) does not end in .txt or does not exist,
\* run returns an error before runFile is called for any file: no file is
\* opened, both Stats stay empty and no report is printed.
C11_ValidationBeforeFiles ==
    ValidationFails =>
        /\ NothingProcessed
        /\ run.pc \in {"start", "failed"}
        /\ run.pc = "failed" => run.err \in {"parsing flags", "invalid file"}

\* run has returned the validation error although the first argument is a
\* good file: the offending argument is the second one.
C11_Witness ==
    /\ run.pc = "failed"
    /\ ~MalformedSwap
    /\ ~OffendingArg(1)
    /\ Len(args) = 2 /\ OffendingArg(2)

\* runFile has returned an error for the file at position f.
FileFailed(f) == f \in DOMAIN results /\ results[f] = "error"

C12_Now ==
    \A f \in DOMAIN args :
        FileFailed(f) =>
            /\ run.pc = "failed"
            /\ run.err = "executing command"
            /\ Len(results) = f
            /\ Len(scanned) <= f
            /\ report = <<>>

C12_Step ==
    /\ run'.pc = "failed" =>
           /\ NotDecreased(words, words')
           /\ NotDecreased(letters, letters')
           /\ Len(scanned') = Len(scanned)
           /\ \A f \in 1..(Len(emitted) - 1) : emitted'[f] = emitted[f]
    /\ run.pc # "failed"

\* C12: when runFile fails for the file at position f, run returns the error:
\* no later file is opened, the step that fails leaves the counts of the
\* files before it as they were, nothing happens afterwards and no report
\* is printed.
C12_StopAtFirstFailure == [](C12_Now) /\ [][C12_Step]_vars

\* The second file failed after the first one had put counts into Stats.
C12_Witness ==
    /\ FileFailed(2)
    /\ results[1] = "nil"
    /\ words.count > 0
    /\ letters.count > 0


\* A panic ended the processing of file f.
Panicked(f) == f \in DOMAIN scanned /\ scanned[f].ended = "panic"

\* C13: a panic raised while a file is processed, whatever its value, is
\* recovered in processFile and comes back as an error: the file has failed,
\* run has returned the error, and the rest of the file was not processed.
C13_PanicRecovered ==
    \A f \in DOMAIN scanned :
        Panicked(f) => (FileFailed(f) /\ run.pc = "failed")


C16_Now ==
    report # <<>> =>
        /\ run.pc = "done"
        /\ Len(results) = Len(args)
        /\ Len(scanned) = Len(args)
        /\ \A f \in DOMAIN args : results[f] = "nil" /\ scanned[f].ended # "open"
        /\ report[1].header = printTotals(words)
        /\ report[2].header = printTotals(letters)

C16_Step == report' # <<>> => (words' = words /\ letters' = letters)

\* C16: the reports are written only when processFile has returned for every
\* file argument: no file is open, the step that prints and every step after
\* it leave both Stats as they are, and the totals shown are those of the
\* Stats at the end.
C16_PrintAfterAllFiles == [](C16_Now) /\ [][C16_Step]_vars

\* The reports of a run over two files that put counts into Stats.
C16_Witness ==
    /\ report # <<>>
    /\ Len(args) = 2
    /\ \A f \in 1..2 : emitted[f] # <<>>

----------------------------------------------------------------------------
(* Claims about print (SpecInc: print called after any inc calls).         *)

ColumnViews == <<"universal", "removed", "swapped", "both">>

\* a comes before b in byte-wise lexicographic order.
LexLess(a, b) ==
    \E i \in 1..Len(b) :
        /\ i <= Len(a) + 1
        /\ \A j \in 1..(i - 1) : a[j] = b[j]
        /\ i = Len(a) + 1 \/ byteRank(a[i]) < byteRank(b[i])

\* list holds every key of view once with its count, highest count first
\* and equal counts by ascending key.
Ranked(list, view) ==
    /\ Len(list) = Cardinality(DOMAIN view)
    /\ \A k \in DOMAIN view : \E i \in DOMAIN list : list[i] = [v |-> k, n |-> view[k]]
    /\ \A i, j \in DOMAIN list :
          i < j => \/ list[i].n > list[j].n
                   \/ list[i].n = list[j].n /\ LexLess(list[i].v, list[j].v)

\* The entries print listed in column c, from the top.
column(rep, c) ==
    SelectSeq([i \in DOMAIN rep.rows |-> rep.rows[i].cells[c]],
              LAMBDA cell : cell # BlankCell)

IsPrefix(a, b) == Len(a) <= Len(b) /\ a = SubSeq(b, 1, Len(a))

\* C14: whatever order Range visits a view in, toUnitSlice returns the
\* view's entries by descending count and, among equal counts, by ascending
\* key; the columns print lists are the beginning of that list.
C14_RankedByCountThenKey ==
    /\ \A d \in Dims, c \in 1..4 :
          \A o \in rangeOrders(bundle(d)[ColumnViews[c]]) :
              Ranked(toUnitSlice(bundle(d)[ColumnViews[c]], o),
                     bundle(d)[ColumnViews[c]])
    /\ report # <<>> =>
          \A c \in 1..4 :
              LET col  == column(report[1], c)
                  view == bundle(report[1].title)[ColumnViews[c]]
              IN  \E o \in rangeOrders(view) :
                      IsPrefix([i \in DOMAIN col |-> [v |-> col[i].v, n |-> col[i].n]],
                               toUnitSlice(view, o))

\* print has listed a column with two keys of equal count and a column with
\* two keys of different counts.
C14_Witness ==
    /\ report # <<>>
    /\ \E c \in 1..4 :
          /\ Len(column(report[1], c)) = 2
          /\ column(report[1], c)[1].n = column(report[1], c)[2].n
    /\ \E c \in 1..4 :
          /\ Len(column(report[1], c)) = 2
          /\ column(report[1], c)[1].n > column(report[1], c)[2].n

RECURSIVE listedSum(_)
listedSum(col) == IF col = <<>> THEN 0 ELSE Head(col).n + listedSum(Tail(col))

\* C18: in every column of a printed table the percentages divide by the
\* total of that column's own view (the header total), the counts listed in
\* the column add up to no more than it, and the swapped and both columns
\* use countSwapped and countBoth.
C18_OwnDenominator ==
    report # <<>> =>
        LET rep == report[1]
            st  == bundle(rep.title)
        IN  /\ rep.header[3] = st.countSwapped
            /\ rep.header[4] = st.countBoth
            /\ \A c \in 1..4 :
                  LET col == column(rep, c)
                  IN  /\ rep.header[c] = SumView(st[ColumnViews[c]])
                      /\ \A i \in DOMAIN col : col[i].total = rep.header[c]
                      /\ listedSum(col) <= rep.header[c]

\* A cut table with an entry in every column, where the removed and the
\* swapped total differ from the raw total and the both total from the
\* swapped total.
C18_Witness ==
    /\ report # <<>>
    /\ report[1].top > 0
    /\ report[1].header[2] # report[1].header[1]
    /\ report[1].header[3] # report[1].header[1]
    /\ report[1].header[4] # report[1].header[3]
    /\ \A c \in 1..4 : column(report[1], c) # <<>>
    /\ \E c \in 1..4 : listedSum(column(report[1], c)) < report[1].header[c]

min(a, b) == IF a <= b THEN a ELSE b

\* How many entries the claim gives column c of a table printed with top.
listedLen(rep, c) ==
    LET n == Cardinality(DOMAIN bundle(rep.title)[ColumnViews[c]])
    IN  IF rep.top > 0 THEN min(rep.top, n) ELSE n

\* C19: with top > 0 every column lists min(top, length) entries and with
\* top = 0 all of them; the table has as many rank rows as its longest
\* column, numbered from 0, and a column that has run out shows a blank cell.
C19_TopAndRows ==
    report # <<>> =>
        LET rep == report[1]
        IN  /\ \A c \in 1..4 : Len(column(rep, c)) = listedLen(rep, c)
            /\ \E c \in 1..4 : Len(rep.rows) = listedLen(rep, c)
            /\ \A c \in 1..4 : Len(rep.rows) >= listedLen(rep, c)
            /\ \A i \in DOMAIN rep.rows :
                  /\ rep.rows[i].rank = i - 1
                  /\ \A c \in 1..4 :
                        rep.rows[i].cells[c] = BlankCell <=> i > listedLen(rep, c)

\* A table cut to its top entry, one of its lists having had two entries,
\* with a blank cell under a view that has none.
C19_Witness ==
    /\ report # <<>>
    /\ report[1].top = 1
    /\ \E c \in 1..4 : Cardinality(DOMAIN bundle(report[1].title)[ColumnViews[c]]) = 2
    /\ Len(report[1].rows) = 1
    /\ \E c \in 1..4 : report[1].rows[1].cells[c] = BlankCell

----------------------------------------------------------------------------
(* Claims about normalize (SpecNorm).                                      *)

\* normalize was called on line ln with HTML mode off.
NormalizedPlain(ln) ==
    /\ scanned # <<>>
    /\ scanned[1].lines = <<ln>>
    /\ ~h.removeHTML

IsLowerOrDigit(c) == c \in Range(LowerLetters) \cup Digits

\* C17: with HTML mode off the tokens normalize returns are non-empty and
\* made of lowercase ASCII letters and digits only, together they are the
\* letters and digits of the line, lowered, in the order of the line; the
\* flag is true exactly when the trimmed line is longer than one character
\* and ends in '-'; and the four example lines give the results listed.
C17_NormalizePlain ==
    /\ (scanned # <<>> /\ ~h.removeHTML) =>
          LET ln == scanned[1].lines[1]
          IN  /\ \A i \in DOMAIN pf.curr :
                    /\ pf.curr[i] # <<>>
                    /\ \A j \in DOMAIN pf.curr[i] : IsLowerOrDigit(pf.curr[i][j])
              /\ Flatten(pf.curr) = SelectSeq(ToLower(ln), IsAlnum)
              /\ pf.currBroken <=>
                    (Len(TrimSpace(ln)) > 1 /\ TrimSpace(ln)[Len(TrimSpace(ln))] = "-")
    /\ NormalizedPlain(ExHello) =>
          /\ pf.curr = << <<"h", "e", "l", "l", "o">>, <<"w", "o", "r", "l", "d">> >>
          /\ ~pf.currBroken
    /\ NormalizedPlain(ExCo) => (pf.curr = << <<"c", "o">> >> /\ pf.currBroken)
    /\ NormalizedPlain(ExDash) => (pf.curr = <<>> /\ ~pf.currBroken)
    /\ NormalizedPlain(ExBlank) => (pf.curr = <<>> /\ ~pf.currBroken)
    /\ NormalizedPlain(<<>>) => (pf.curr = <<>> /\ ~pf.currBroken)

\* A line with an uppercase letter and a character that is dropped, ending in
\* a dash: one token, flag true.
C17_Witness ==
    /\ NormalizedPlain(<<"B", "!", "-">>)
    /\ pf.curr = << <<"b">> >>
    /\ pf.currBroken


----------------------------------------------------------------------------
(* Claims about processLine (SpecLine).                                    *)

\* The sum over the keys of a view of f(key) times the key's count.
RECURSIVE weighted(_, _)
weighted(view, c) ==
    IF DOMAIN view = {} THEN 0
    ELSE LET k == CHOOSE x \in DOMAIN view : TRUE
             w == IF c = "length" THEN Len(k) ELSE Count(k, c)
         IN  w * view[k] + weighted([x \in DOMAIN view \ {k} |-> view[x]], c)

RECURSIVE lengthOfRemoved(_)
lengthOfRemoved(toks) ==
    IF toks = <<>> THEN 0
    ELSE (IF Head(toks) \in h.removeWords THEN Len(Head(toks)) ELSE 0)
            + lengthOfRemoved(Tail(toks))

\* Every character that is in a key of a words view or a key of a letters
\* view.
CharsSeen ==
    UNION { Range(k) : k \in UNION { DOMAIN words[v] : v \in ViewNames } }
        \cup UNION { Range(k) : k \in UNION { DOMAIN letters[v] : v \in ViewNames } }

----------------------------------------------------------------------------
(* Claims about the tokens processFile hands on (Spec).                    *)

\* What normalize gave for each of the lines, in order.
RECURSIVE normalizedLines(_)
normalizedLines(lns) ==
    IF lns = <<>> THEN <<>>
    ELSE <<normalize(Head(lns), h.removeHTML)>> \o normalizedLines(Tail(lns))

\* out can be read off the normalized lines ns from token k of line i on:
\* every token of out is the next token not yet used, or the last token of a
\* broken line joined to the first token of the line right after it; tokens
\* may be passed over, none is used twice, and what follows a joined token
\* starts at the second token of that next line.
RECURSIVE builtFrom(_, _, _, _)
builtFrom(out, ns, i, k) ==
    IF out = <<>> THEN TRUE
    ELSE IF i > Len(ns) THEN FALSE
    ELSE IF k > Len(ns[i].tokens) THEN builtFrom(out, ns, i + 1, 1)
    ELSE \/ /\ Head(out) = ns[i].tokens[k]
            /\ builtFrom(Tail(out), ns, i, k + 1)
         \/ /\ k = Len(ns[i].tokens)
            /\ ns[i].broken
            /\ i < Len(ns)
            /\ ns[i + 1].tokens # <<>>
            /\ Head(out) = ns[i].tokens[k] \o ns[i + 1].tokens[1]
            /\ builtFrom(Tail(out), ns, i + 1, 2)
         \/ builtFrom(out, ns, i, k + 1)

\* C22: the tokens processFile has handed on for a file are, in order, single
\* tokens of that file's lines or the last token of a broken line joined to
\* the first token of the very next line: no token is made of three, none is
\* joined across a line without tokens, none across two files.
C22_OneOrTwoTokens ==
    \A f \in DOMAIN emitted :
        builtFrom(emitted[f], normalizedLines(scanned[f].lines), 1, 1)

\* Th-, e a-, the, the read to the end: two joins in a row, "th" with "e"
\* and "a" with "the", each of two tokens, and the last line handed on alone.
C22_Witness ==
    \E f \in DOMAIN scanned :
        /\ Consumed(f)
        /\ scanned[f].lines = << <<"T", "h", "-">>, <<"e", " ", "a", "-">>,
                                 <<"t", "h", "e">>, <<"t", "h", "e">> >>
        /\ emitted[f] = << <<"t", "h", "e">>, <<"a", "t", "h", "e">>, <<"t", "h", "e">> >>

----------------------------------------------------------------------------
(* Claims about normalize in HTML mode (SpecNorm).                         *)

\* In s the positions i..j are a tag: '<', perhaps '/', one or more letters
\* or digits, '>'.
IsTag(s, i, j) ==
    /\ i < j
    /\ s[i] = "<"
    /\ s[j] = ">"
    /\ LET from == IF s[i + 1] = "/" THEN i + 2 ELSE i + 1
       IN  /\ from < j
           /\ \A p \in from..(j - 1) : IsAlnum(s[p])

TagSpans(s) == { sp \in (DOMAIN s) \X (DOMAIN s) : IsTag(s, sp[1], sp[2]) }

InTag(s, p) == \E sp \in TagSpans(s) : sp[1] <= p /\ p <= sp[2]

\* Position p holds a space right before or right after a tag.
SpaceByTag(s, p) ==
    /\ s[p] = " "
    /\ \E sp \in TagSpans(s) : sp[1] = p + 1 \/ sp[2] = p - 1

\* The characters of s at the positions in ps, in order.
RECURSIVE pick(_, _, _)
pick(s, p, ps) ==
    IF p > Len(s) THEN <<>>
    ELSE (IF p \in ps THEN <<s[p]>> ELSE <<>>) \o pick(s, p + 1, ps)

\* s without its tags, and s without its tags and the spaces next to them.
untagged(s) == pick(s, 1, { p \in DOMAIN s : ~InTag(s, p) })
unspaced(s) ==
    pick(s, 1, { p \in DOMAIN s : ~InTag(s, p) /\ ~SpaceByTag(s, p) })

\* Outside its tags s has letters, digits and spaces only.
PlainAroundTags(s) ==
    \A p \in DOMAIN s : InTag(s, p) \/ IsAlnum(s[p]) \/ s[p] = " "

\* C23: in HTML mode the letters and digits of the tokens are those of the
\* lowered line outside its tags <word> and </word>, in order, so no tag name
\* is in a token; where the line has only letters, digits and spaces around
\* its tags the tokens are the fields of the line without the tags and
\* without the spaces next to them.  With HTML mode off the letters and
\* digits of the tag names stay in the tokens.  In both modes the flag is
\* that of the trimmed line as it came: longer than one character and ending
\* in '-'.
C23_NormalizeHTML ==
    scanned # <<>> =>
        LET ln      == scanned[1].lines[1]
            lowered == ToLower(TrimSpace(ln))
        IN  /\ h.removeHTML =>
                  /\ Flatten(pf.curr) = SelectSeq(untagged(lowered), IsAlnum)
                  /\ PlainAroundTags(lowered) =>
                        pf.curr = Fields(unspaced(lowered))
            /\ ~h.removeHTML =>
                  Flatten(pf.curr) = SelectSeq(lowered, IsAlnum)
            /\ pf.currBroken <=>
                  (Len(TrimSpace(ln)) > 1 /\ TrimSpace(ln)[Len(TrimSpace(ln))] = "-")

\* "a <b> B-" in HTML mode: the tag and the space on each side of it are
\* gone, one token is left, and the flag is set by the dash.
C23_Witness ==
    /\ scanned # <<>>
    /\ scanned[1].lines = <<ExTagOne>>
    /\ h.removeHTML
    /\ pf.curr = << <<"a", "b">> >>
    /\ pf.currBroken


====
